---- MODULE Spec2Model ----
(***************************************************************************)
(* Model of the image-to-word converter (src/mvp_converter.py) and of the  *)
(* Streamlit convert-button handler (src/streamlit_app.py).                *)
(*                                                                         *)
(* Text is a sequence of one-character strings.  The markup parser         *)
(* (parse_formatting, _parse_inline_formatting) is modelled as operators   *)
(* that compute what the Python code computes (str.split, str.strip,       *)
(* str.startswith, str.replace, re.finditer with the lazy pattern).        *)
(* The conversion pipeline (convert) is modelled as a process per          *)
(* invocation over a shared file system.                                   *)
(***************************************************************************)
EXTENDS Integers, Sequences, FiniteSets, TLC

VARIABLES
    formatted_text,   \* parser input: the annotated text under test
    blocks,           \* result of parse_formatting(formatted_text)
    runs,             \* result of _parse_inline_formatting(formatted_text)
    step,             \* "input" | "parsed" | "tokenized" | "generated" | "generate_failed" | "idle"
    doc,              \* the operations generate_word_document issued on the Document, in order
    save_path,        \* argument output_path of generate_word_document
    caller,           \* per invocation: "direct" (convert_image_to_word) | "streamlit" | "none"
    pc,               \* per invocation: position in the handler / in convert
    image_path,       \* per invocation: argument of convert
    output_path,      \* per invocation: argument of convert
    image,            \* per invocation: what cv2.imread returned
    preprocessed_path,\* per invocation: local of convert
    result,           \* per invocation: what extract_formatted_text returned
    conv_blocks,      \* per invocation: local blocks of convert
    success,          \* per invocation: what generate_word_document returned
    gen_error,        \* per invocation: text of the exception generate_word_document caught and logged
    ret,              \* per invocation: the value convert returned
    log,              \* per invocation: the stages announced by logger.info, in order
    fs                \* the file system: path -> file

pvars == <<formatted_text, blocks, runs, step, doc, save_path>>
cvars == <<caller, pc, image_path, output_path, image, preprocessed_path,
           result, conv_blocks, success, gen_error, ret, log, fs>>
vars == <<formatted_text, blocks, runs, step, doc, save_path, caller, pc, image_path, output_path,
          image, preprocessed_path, result, conv_blocks, success, gen_error, ret, log, fs>>

----------------------------------------------------------------------------
(* Bounds *)

\* number of pieces concatenated to build an input text
MaxPieces == 5

\* number of blocks of a block sequence handed to generate_word_document
MaxBlocks == 2

----------------------------------------------------------------------------
(* Python string primitives *)

NL == "\n"
STAR == "*"

CENTER == <<"[", "C", "E", "N", "T", "E", "R", "]">>
RIGHT == <<"[", "R", "I", "G", "H", "T", "]">>

\* str.isspace() for the characters of the model's alphabet
IsSpace(c) == c \in {" ", "\n", "\t", "\r"}

\* s.startswith(p)
StartsWith(s, p) == Len(s) >= Len(p) /\ SubSeq(s, 1, Len(p)) = p

\* s.endswith(p)
EndsWith(s, p) == Len(s) >= Len(p) /\ SubSeq(s, Len(s) - Len(p) + 1, Len(s)) = p

RECURSIVE LStrip(_)
LStrip(s) ==
    IF s # <<>> /\ IsSpace(Head(s)) THEN LStrip(Tail(s)) ELSE s

RECURSIVE RStrip(_)
RStrip(s) ==
    IF s # <<>> /\ IsSpace(s[Len(s)]) THEN RStrip(SubSeq(s, 1, Len(s) - 1)) ELSE s

\* s.strip()
Strip(s) == RStrip(LStrip(s))

\* s.replace(old, ''): every non-overlapping occurrence, left to right
RECURSIVE Remove(_, _)
Remove(s, old) ==
    IF s = <<>> THEN <<>>
    ELSE IF StartsWith(s, old) THEN Remove(SubSeq(s, Len(old) + 1, Len(s)), old)
    ELSE <<Head(s)>> \o Remove(Tail(s), old)

\* s.split('\n'): k separators give k+1 pieces, empty pieces kept
RECURSIVE Split(_, _)
Split(s, cur) ==
    IF s = <<>> THEN <<cur>>
    ELSE IF Head(s) = NL THEN <<cur>> \o Split(Tail(s), <<>>)
    ELSE Split(Tail(s), Append(cur, Head(s)))

SplitLines(s) == Split(s, <<>>)

----------------------------------------------------------------------------
\* re.finditer over the pattern: bold alternative first, then italic, both lazy

\* closing of the bold alternative from position j: the first k >= j with "**" at k, k+1,
\* every character skipped being matched by '.', which excludes "\n"; 0 if none
RECURSIVE FindClose2(_, _)
FindClose2(text, j) ==
    IF j + 1 > Len(text) THEN 0
    ELSE IF text[j] = STAR /\ text[j + 1] = STAR THEN j
    ELSE IF text[j] = NL THEN 0
    ELSE FindClose2(text, j + 1)

\* closing of the italic alternative from position j
RECURSIVE FindClose1(_, _)
FindClose1(text, j) ==
    IF j > Len(text) THEN 0
    ELSE IF text[j] = STAR THEN j
    ELSE IF text[j] = NL THEN 0
    ELSE FindClose1(text, j + 1)

\* the pattern tried at position i: first alternative first; the result is the
\* position of the last character of the match, 0 when there is no match at i
MatchEnd(text, i) ==
    IF i + 1 <= Len(text) /\ text[i] = STAR /\ text[i + 1] = STAR
          /\ FindClose2(text, i + 2) # 0
    THEN FindClose2(text, i + 2) + 1
    ELSE IF i <= Len(text) /\ text[i] = STAR /\ FindClose1(text, i + 1) # 0
    THEN FindClose1(text, i + 1)
    ELSE 0

\* the matches from position i on, left to right, non-overlapping:
\* a sequence of <<first, last>> positions
RECURSIVE FindIter(_, _)
FindIter(text, i) ==
    IF i > Len(text) THEN <<>>
    ELSE IF MatchEnd(text, i) # 0
         THEN <<(<<i, MatchEnd(text, i)>>)>> \o FindIter(text, MatchEnd(text, i) + 1)
         ELSE FindIter(text, i + 1)

----------------------------------------------------------------------------
(* _parse_inline_formatting *)

PlainRun(t) == [text |-> t, bold |-> FALSE, italic |-> FALSE]

\* MUTANT of FormattedRun: the bold branch slices [1:-1] instead of [2:-2]
FormattedRun_slice1(matched_text) ==
    IF StartsWith(matched_text, <<STAR, STAR>>) /\ EndsWith(matched_text, <<STAR, STAR>>)
    THEN <<[text |-> SubSeq(matched_text, 2, Len(matched_text) - 1),
            bold |-> TRUE, italic |-> FALSE]>>
    ELSE IF StartsWith(matched_text, <<STAR>>) /\ EndsWith(matched_text, <<STAR>>)
    THEN <<[text |-> SubSeq(matched_text, 2, Len(matched_text) - 1),
            bold |-> FALSE, italic |-> TRUE]>>
    ELSE <<>>

\* the run appended for one match (a sequence of zero or one run)
FormattedRun(matched_text) ==
    IF StartsWith(matched_text, <<STAR, STAR>>) /\ EndsWith(matched_text, <<STAR, STAR>>)
    THEN <<[text |-> SubSeq(matched_text, 3, Len(matched_text) - 2),
            bold |-> TRUE, italic |-> FALSE]>>
    ELSE IF StartsWith(matched_text, <<STAR>>) /\ EndsWith(matched_text, <<STAR>>)
    THEN <<[text |-> SubSeq(matched_text, 2, Len(matched_text) - 1),
            bold |-> FALSE, italic |-> TRUE]>>
    ELSE <<>>

\* the loop over the matches; current_pos counts the characters consumed
RECURSIVE InlineLoop(_, _, _)
InlineLoop(text, matches, current_pos) ==
    IF matches = <<>>
    THEN IF current_pos < Len(text)
         THEN <<PlainRun(SubSeq(text, current_pos + 1, Len(text)))>>
         ELSE <<>>
    ELSE LET m == Head(matches)
             before == IF m[1] - 1 > current_pos
                       THEN <<PlainRun(SubSeq(text, current_pos + 1, m[1] - 1))>>
                       ELSE <<>>
         IN before \o FormattedRun(SubSeq(text, m[1], m[2]))
                   \o InlineLoop(text, Tail(matches), m[2])

\* MUTANT of parse_inline_formatting: no fallback run when the loop appended none
parse_inline_formatting_nofallback(text) ==
    InlineLoop(text, FindIter(text, 1), 0)

parse_inline_formatting(text) ==
    LET rs == InlineLoop(text, FindIter(text, 1), 0)
    IN IF rs = <<>> THEN <<PlainRun(text)>> ELSE rs

----------------------------------------------------------------------------
(* parse_formatting *)

ParagraphBreak == [type |-> "paragraph_break", content |-> <<>>]

\* alignment detection: <<alignment, remaining line>>
DetectAlignment(line) ==
    IF StartsWith(line, CENTER) THEN <<"center", Strip(Remove(line, CENTER))>>
    ELSE IF StartsWith(line, RIGHT) THEN <<"right", Strip(Remove(line, RIGHT))>>
    ELSE <<"left", line>>

\* MUTANT of DetectHeading: the shortest prefix is tested first
DetectHeading_shortfirst(line) ==
    IF StartsWith(line, <<"#">>) THEN <<1, Strip(Remove(line, <<"#">>))>>
    ELSE IF StartsWith(line, <<"#", "#">>) THEN <<2, Strip(Remove(line, <<"#", "#">>))>>
    ELSE IF StartsWith(line, <<"#", "#", "#">>) THEN <<3, Strip(Remove(line, <<"#", "#", "#">>))>>
    ELSE <<0, line>>

\* heading detection: <<heading_level, remaining line>>
DetectHeading(line) ==
    IF StartsWith(line, <<"#", "#", "#">>) THEN <<3, Strip(Remove(line, <<"#", "#", "#">>))>>
    ELSE IF StartsWith(line, <<"#", "#">>) THEN <<2, Strip(Remove(line, <<"#", "#">>))>>
    ELSE IF StartsWith(line, <<"#">>) THEN <<1, Strip(Remove(line, <<"#">>))>>
    ELSE <<0, line>>

\* the body of the loop over the lines: the block appended for one line
ClassifyLine(line) ==
    IF Strip(line) = <<>> THEN ParagraphBreak
    ELSE LET a == DetectAlignment(line)
             h == DetectHeading(a[2])
         IN [type |-> IF h[1] > 0 THEN "heading" ELSE "paragraph",
             heading_level |-> h[1],
             alignment |-> a[1],
             runs |-> parse_inline_formatting(h[2])]

\* MUTANT of parse_formatting: blank lines are skipped instead of emitted
parse_formatting_skipblank(text) ==
    LET lines == SelectSeq(SplitLines(text), LAMBDA l : Strip(l) # <<>>)
    IN [i \in 1..Len(lines) |-> ClassifyLine(lines[i])]

parse_formatting(text) ==
    LET lines == SplitLines(text)
    IN [i \in 1..Len(lines) |-> ClassifyLine(lines[i])]

----------------------------------------------------------------------------
(* generate_word_document: the operations issued on the python-docx Document *)

AddParagraph == [op |-> "add_paragraph"]
AddHeading(level) == [op |-> "add_heading", level |-> level]
SetAlignment(a) == [op |-> "alignment", alignment |-> a]
AddRun(text) == [op |-> "add_run", text |-> text]
SetBold(b) == [op |-> "bold", bold |-> b]
SetItalic(i) == [op |-> "italic", italic |-> i]
SetFontSize(pt) == [op |-> "font_size", pt |-> pt]
Save(path) == [op |-> "save", path |-> path]

\* the point size of a run of block
FontSize(block) ==
    IF block.type = "heading"
    THEN IF block.heading_level = 1 THEN 24
         ELSE IF block.heading_level = 2 THEN 18
         ELSE 14
    ELSE 11

\* the body of the loop over block['runs']
RunOps(block, run_data) ==
    << AddRun(run_data.text), SetBold(run_data.bold), SetItalic(run_data.italic),
       SetFontSize(FontSize(block)) >>

RECURSIVE RunsOps(_, _)
RunsOps(block, rs) ==
    IF rs = <<>> THEN <<>> ELSE RunOps(block, Head(rs)) \o RunsOps(block, Tail(rs))

\* MUTANT of BlockOps: a paragraph_break is skipped without adding a paragraph
BlockOps_skipbreak(block) ==
    IF block.type = "paragraph_break" THEN <<>>
    ELSE << IF block.type = "heading" THEN AddHeading(block.heading_level)
            ELSE AddParagraph,
            IF block.alignment = "center" THEN SetAlignment("CENTER")
            ELSE IF block.alignment = "right" THEN SetAlignment("RIGHT")
            ELSE SetAlignment("LEFT") >>
         \o RunsOps(block, block.runs)

\* the body of the loop over the blocks
BlockOps(block) ==
    IF block.type = "paragraph_break" THEN <<AddParagraph>>
    ELSE << IF block.type = "heading" THEN AddHeading(block.heading_level)
            ELSE AddParagraph,
            IF block.alignment = "center" THEN SetAlignment("CENTER")
            ELSE IF block.alignment = "right" THEN SetAlignment("RIGHT")
            ELSE SetAlignment("LEFT") >>
         \o RunsOps(block, block.runs)

RECURSIVE BlocksOps(_)
BlocksOps(bs) == IF bs = <<>> THEN <<>> ELSE BlockOps(Head(bs)) \o BlocksOps(Tail(bs))

\* the operations of a call in which none raises
generate_word_document(bs, path) == BlocksOps(bs) \o <<Save(path)>>

----------------------------------------------------------------------------
(* Block sequences handed to generate_word_document: at most MaxBlocks blocks *)

Alignments == {"left", "center", "right"}

\* heading levels: those parse_formatting gives and one other
HeadingLevels == 1..4

RunSeqs ==
    { <<>>,
      <<[text |-> <<"a">>, bold |-> FALSE, italic |-> FALSE]>>,
      <<[text |-> <<"a">>, bold |-> TRUE, italic |-> FALSE],
        [text |-> <<"b">>, bold |-> FALSE, italic |-> TRUE]>> }

BlockSet ==
    {ParagraphBreak}
    \cup { [type |-> "heading", heading_level |-> l, alignment |-> a, runs |-> rs] :
             l \in HeadingLevels, a \in Alignments, rs \in RunSeqs }
    \cup { [type |-> "paragraph", heading_level |-> 0, alignment |-> a, runs |-> rs] :
             a \in Alignments, rs \in RunSeqs }

RECURSIVE BlockSeqsOf(_)
BlockSeqsOf(n) ==
    IF n = 0 THEN { <<>> }
    ELSE LET shorter == BlockSeqsOf(n - 1)
         IN shorter \cup { Append(bs, b) : bs \in shorter, b \in BlockSet }

BlockSeqs == BlockSeqsOf(MaxBlocks)

----------------------------------------------------------------------------
(* Input texts of the parser: concatenations of at most MaxPieces pieces *)

Pieces ==
    { <<"a">>, <<STAR>>, <<STAR, STAR>>, <<" ">>, <<"#">>, <<NL>>, CENTER, RIGHT }

RECURSIVE TextsOf(_)
TextsOf(n) ==
    IF n = 0 THEN { <<>> }
    ELSE LET shorter == TextsOf(n - 1)
         IN shorter \cup { t \o p : t \in shorter, p \in Pieces }

Texts == TextsOf(MaxPieces)

HasNewline(s) == \E i \in 1..Len(s) : s[i] = NL

----------------------------------------------------------------------------
(* The conversion pipeline: invocations, paths, files *)

\* the concurrent invocations of convert
Procs == {"p1", "p2"}

\* Python's None, in the places where the program has it: an error that is
\* not set, a text that is not a str, a path or a value not yet assigned
None == "None"
NullText == <<"null">>
NoPath == <<>>
Unset == [unset |-> TRUE]

\* paths are sequences of tokens; "." is the dot character, the other tokens
\* are dot-free strings
ImagePaths ==
    { <<"a", ".", "jpg">>, <<"b", ".", "jpg">> }

\* the name tempfile.NamedTemporaryFile gives the uploaded image of invocation p
UploadPath(p) == <<"tmp_in_", p, ".", "jpg">>

\* the output document of invocation p (a NamedTemporaryFile for the Streamlit
\* caller, the caller's own document path otherwise)
OutputPath(p) == <<"out_", p, ".", "docx">>

\* image_path.replace('.', '_preprocessed.')
RECURSIVE PreprocessedPath(_)
PreprocessedPath(path) ==
    IF path = <<>> THEN <<>>
    ELSE IF Head(path) = "." THEN <<"_preprocessed", ".">> \o PreprocessedPath(Tail(path))
    ELSE <<Head(path)>> \o PreprocessedPath(Tail(path))

RECURSIVE PathStr(_)
PathStr(path) == IF path = <<>> THEN "" ELSE Head(path) \o PathStr(Tail(path))

InputPaths == ImagePaths \cup { UploadPath(p) : p \in Procs }

Paths ==
    InputPaths \cup { PreprocessedPath(x) : x \in InputPaths }
               \cup { OutputPath(p) : p \in Procs }

Absent == [kind |-> "absent", by |-> "none"]
File(k, who) == [kind |-> k, by |-> who]
Exists(path) == fs[path].kind # "absent"

\* truth value of a Python str-or-None
Truthy(v) == v # None /\ v # ""

\* texts the OCR provider may answer with (status 200); NullText is a response
\* whose "text" part is JSON null
OcrTexts ==
    { <<>>,
      <<"#", " ", "a", NL, NL, STAR, "a", STAR>>,
      NullText }

\* response bodies of a non-200 answer, and str(e) of a raised exception
ErrorBodies == { "", "quota exceeded" }
ExceptionTexts == { "", "Read timed out." }

\* parse_formatting on the texts of the provider
ParsedOcr == [t \in OcrTexts \ {NullText} |-> parse_formatting(t)]

\* the four stages, as announced in the log
Stages == <<"preprocess", "ocr", "classify", "assemble">>

----------------------------------------------------------------------------
(* convert: results *)

Failure(msg) == [success |-> FALSE, message |-> msg]

SuccessResult(path) ==
    [success |-> TRUE, message |-> "Conversion completed successfully!", output_path |-> path]

\* MUTANT of InTry: the try block opens after the call of preprocess_image
InTry_afterPreprocess(label) ==
    label \in {"open", "post", "parse", "generate", "exists", "remove"}

\* the labels of convert that lie inside its try block
InTry(label) ==
    label \in {"imread", "imwrite", "open", "post", "parse", "generate", "exists", "remove"}

\* an exception with text msg raised at the current label of p: caught by
\* convert's except clause when the label is inside the try block, propagated
\* to the caller otherwise
Raise(p, msg) ==
    IF InTry(pc[p])
    THEN /\ ret' = [ret EXCEPT ![p] = Failure(msg)]
         /\ pc' = [pc EXCEPT ![p] = "returned"]
    ELSE /\ ret' = ret
         /\ pc' = [pc EXCEPT ![p] = "raised"]

\* convert returns value v
Return(p, v) ==
    /\ ret' = [ret EXCEPT ![p] = v]
    /\ pc' = [pc EXCEPT ![p] = "returned"]

----------------------------------------------------------------------------
(* convert: steps *)

\* convert is entered: logger line, then preprocess_image is called
Convert_Enter(p) ==
    /\ pc[p] = "call"
    /\ pc' = [pc EXCEPT ![p] = "imread"]
    /\ log' = [log EXCEPT ![p] = Append(@, "preprocess")]
    /\ UNCHANGED <<pvars, caller, image_path, output_path, image, preprocessed_path,
                   result, conv_blocks, success, gen_error, ret, fs>>

\* preprocess_image: cv2.imread, None for a missing or undecodable file
Preprocess_Read(p) ==
    /\ pc[p] = "imread"
    /\ IF fs[image_path[p]].kind \in {"image", "preprocessed"}
       THEN /\ image' = [image EXCEPT ![p] = "array"]
            /\ pc' = [pc EXCEPT ![p] = "imwrite"]
            /\ ret' = ret
       ELSE /\ image' = [image EXCEPT ![p] = None]
            /\ Raise(p, "Could not read image: " \o PathStr(image_path[p]))
    /\ UNCHANGED <<pvars, caller, image_path, output_path, preprocessed_path,
                   result, conv_blocks, success, gen_error, log, fs>>

\* preprocess_image: the filters, then cv2.imwrite to the derived path; imwrite
\* reports a failed write by its return value, which the code ignores
Preprocess_Write(p) ==
    /\ pc[p] = "imwrite"
    /\ \E written \in BOOLEAN :
          fs' = IF written
                THEN [fs EXCEPT ![PreprocessedPath(image_path[p])] = File("preprocessed", p)]
                ELSE fs
    /\ preprocessed_path' = [preprocessed_path EXCEPT ![p] = PreprocessedPath(image_path[p])]
    /\ pc' = [pc EXCEPT ![p] = "open"]
    /\ log' = [log EXCEPT ![p] = Append(@, "ocr")]
    /\ UNCHANGED <<pvars, caller, image_path, output_path, image,
                   result, conv_blocks, success, gen_error, ret>>

\* extract_formatted_text: open(image_path, 'rb') and read, outside its try
Extract_Open(p) ==
    /\ pc[p] = "open"
    /\ IF Exists(preprocessed_path[p])
       THEN /\ pc' = [pc EXCEPT ![p] = "post"]
            /\ ret' = ret
       ELSE Raise(p, "[Errno 2] No such file or directory: " \o PathStr(preprocessed_path[p]))
    /\ UNCHANGED <<pvars, caller, image_path, output_path, image, preprocessed_path,
                   result, conv_blocks, success, gen_error, log, fs>>

\* what extract_formatted_text returns: the request or the decoding raises,
\* the provider answers with another status than 200, or it answers with a text
ExtractResults ==
    { [text |-> <<>>, error |-> e] : e \in ExceptionTexts \cup ErrorBodies }
        \cup { [text |-> t, error |-> None] : t \in OcrTexts }

\* MUTANT of Extract_Post: convert does not test result['error']
Extract_Post_unchecked(p) ==
    /\ pc[p] = "post"
    /\ \E r \in ExtractResults :
          result' = [result EXCEPT ![p] = r]
    /\ pc' = [pc EXCEPT ![p] = "parse"]
    /\ log' = [log EXCEPT ![p] = Append(@, "classify")]
    /\ UNCHANGED <<pvars, caller, image_path, output_path, image, preprocessed_path,
                   conv_blocks, success, gen_error, ret, fs>>

\* extract_formatted_text: requests.post and the decoding of the answer, then
\* convert's test of result['error']
Extract_Post(p) ==
    /\ pc[p] = "post"
    /\ \E r \in ExtractResults :
          /\ result' = [result EXCEPT ![p] = r]
          /\ IF Truthy(r.error)
             THEN /\ Return(p, Failure("OCR failed: " \o r.error))
                  /\ log' = log
             ELSE /\ pc' = [pc EXCEPT ![p] = "parse"]
                  /\ ret' = ret
                  /\ log' = [log EXCEPT ![p] = Append(@, "classify")]
    /\ UNCHANGED <<pvars, caller, image_path, output_path, image, preprocessed_path,
                   conv_blocks, success, gen_error, fs>>

\* parse_formatting(result['text']); a text that is not a str has no split
Convert_Parse(p) ==
    /\ pc[p] = "parse"
    /\ IF result[p].text = NullText
       THEN /\ Raise(p, "'NoneType' object has no attribute 'split'")
            /\ conv_blocks' = conv_blocks
            /\ log' = log
       ELSE /\ conv_blocks' = [conv_blocks EXCEPT ![p] = ParsedOcr[result[p].text]]
            /\ pc' = [pc EXCEPT ![p] = "generate"]
            /\ ret' = ret
            /\ log' = [log EXCEPT ![p] = Append(@, "assemble")]
    /\ UNCHANGED <<pvars, caller, image_path, output_path, image, preprocessed_path,
                   result, success, gen_error, fs>>

\* generate_word_document: the document is built and saved; a fault is caught
\* inside and reported as False, with or without a partial file left behind
Outcomes_Generate == {"saved", "failed", "failed_partial"}

\* str(e) of the exception caught in generate_word_document: raised by an
\* operation on the Document (no file written) or by doc.save (partial file)
GenerateFaults ==
    [failed |-> "Package not found",
     failed_partial |-> "[Errno 28] No space left on device"]

Convert_Generate(p) ==
    /\ pc[p] = "generate"
    /\ \E o \in Outcomes_Generate :
          /\ fs' = CASE o = "saved" -> [fs EXCEPT ![output_path[p]] = File("docx", p)]
                     [] o = "failed_partial" -> [fs EXCEPT ![output_path[p]] = File("partial", p)]
                     [] OTHER -> fs
          /\ success' = [success EXCEPT ![p] = (o = "saved")]
          /\ gen_error' = [gen_error EXCEPT ![p] = IF o = "saved" THEN None
                                                  ELSE GenerateFaults[o]]
    /\ pc' = [pc EXCEPT ![p] = "exists"]
    /\ UNCHANGED <<pvars, caller, image_path, output_path, image, preprocessed_path,
                   result, conv_blocks, ret, log>>

\* MUTANT of FinalResult: the value of success is not looked at
FinalResult_ignoresuccess(p) ==
    SuccessResult(output_path[p])

\* the final return of convert
FinalResult(p) ==
    IF success[p] THEN SuccessResult(output_path[p])
    ELSE Failure("Failed to generate Word document")

\* cleanup: os.path.exists(preprocessed_path)
Cleanup_Exists(p) ==
    /\ pc[p] = "exists"
    /\ IF Exists(preprocessed_path[p])
       THEN /\ pc' = [pc EXCEPT ![p] = "remove"]
            /\ ret' = ret
       ELSE Return(p, FinalResult(p))
    /\ UNCHANGED <<pvars, caller, image_path, output_path, image, preprocessed_path,
                   result, conv_blocks, success, gen_error, log, fs>>

\* cleanup: os.remove(preprocessed_path); it raises when the file has gone in
\* the meantime or when the system refuses the removal
Cleanup_Remove(p) ==
    /\ pc[p] = "remove"
    /\ \/ /\ Exists(preprocessed_path[p])
          /\ fs' = [fs EXCEPT ![preprocessed_path[p]] = Absent]
          /\ Return(p, FinalResult(p))
       \/ /\ Exists(preprocessed_path[p])
          /\ fs' = fs
          /\ Raise(p, "[Errno 13] Permission denied: " \o PathStr(preprocessed_path[p]))
       \/ /\ ~Exists(preprocessed_path[p])
          /\ fs' = fs
          /\ Raise(p, "[Errno 2] No such file or directory: " \o PathStr(preprocessed_path[p]))
    /\ UNCHANGED <<pvars, caller, image_path, output_path, image, preprocessed_path,
                   result, conv_blocks, success, gen_error, log>>

----------------------------------------------------------------------------
(* The Streamlit convert-button handler around convert *)

\* the uploaded bytes are saved to a fresh temporary file
St_SaveUpload(p) ==
    /\ pc[p] = "st_upload"
    /\ \E k \in {"image", "corrupt"} :
          fs' = [fs EXCEPT ![UploadPath(p)] = File(k, p)]
    /\ image_path' = [image_path EXCEPT ![p] = UploadPath(p)]
    /\ pc' = [pc EXCEPT ![p] = "st_alloc"]
    /\ UNCHANGED <<pvars, caller, output_path, image, preprocessed_path,
                   result, conv_blocks, success, gen_error, ret, log>>

\* the output temporary file is created, empty, and kept (delete=False)
St_AllocOutput(p) ==
    /\ pc[p] = "st_alloc"
    /\ fs' = [fs EXCEPT ![OutputPath(p)] = File("empty", p)]
    /\ output_path' = [output_path EXCEPT ![p] = OutputPath(p)]
    /\ pc' = [pc EXCEPT ![p] = "call"]
    /\ UNCHANGED <<pvars, caller, image_path, image, preprocessed_path,
                   result, conv_blocks, success, gen_error, ret, log>>

\* after convert has returned: the input temporary file is removed
St_CleanupInput(p) ==
    /\ pc[p] = "returned"
    /\ caller[p] = "streamlit"
    /\ fs' = [fs EXCEPT ![image_path[p]] = Absent]
    /\ pc' = [pc EXCEPT ![p] = "st_show"]
    /\ UNCHANGED <<pvars, caller, image_path, output_path, image, preprocessed_path,
                   result, conv_blocks, success, gen_error, ret, log>>

\* the result is shown: on success the document is read for the download
\* button and the output file removed; on failure only the error is shown
St_ShowResult(p) ==
    /\ pc[p] = "st_show"
    /\ fs' = IF ret[p].success THEN [fs EXCEPT ![output_path[p]] = Absent] ELSE fs
    /\ pc' = [pc EXCEPT ![p] = "st_done"]
    /\ UNCHANGED <<pvars, caller, image_path, output_path, image, preprocessed_path,
                   result, conv_blocks, success, gen_error, ret, log>>

\* the conversion of p is over for its caller
Finished(p) ==
    \/ caller[p] = "direct" /\ pc[p] = "returned"
    \/ caller[p] = "streamlit" /\ pc[p] = "st_done"

----------------------------------------------------------------------------
(* Pipeline specification *)

\* the files present before any invocation: the images of ImagePaths, each a
\* decodable image or not
InitialFiles ==
    { [x \in Paths |-> IF x \in ImagePaths THEN g[x] ELSE Absent] :
         g \in [ImagePaths -> {File("image", "env"), File("corrupt", "env")}] }

\* the state of the invocations in the set active when they are called
InitConvert(active) ==
    /\ caller \in { c \in [Procs -> {"direct", "streamlit", "none"}] :
                      \A p \in Procs : (c[p] = "none") <=> (p \notin active) }
    /\ image_path \in { ip \in [Procs -> ImagePaths \cup {NoPath}] :
                          \A p \in Procs : (ip[p] # NoPath) <=> (caller[p] = "direct") }
    /\ output_path = [p \in Procs |-> IF caller[p] = "direct" THEN OutputPath(p) ELSE NoPath]
    /\ pc = [p \in Procs |-> CASE caller[p] = "direct" -> "call"
                               [] caller[p] = "streamlit" -> "st_upload"
                               [] OTHER -> "idle"]
    /\ image = [p \in Procs |-> "unread"]
    /\ preprocessed_path = [p \in Procs |-> NoPath]
    /\ result = [p \in Procs |-> Unset]
    /\ conv_blocks = [p \in Procs |-> <<>>]
    /\ success = [p \in Procs |-> FALSE]
    /\ gen_error = [p \in Procs |-> None]
    /\ ret = [p \in Procs |-> Unset]
    /\ log = [p \in Procs |-> <<>>]

ParserIdle ==
    /\ formatted_text = <<>>
    /\ blocks = <<>>
    /\ runs = <<>>
    /\ step = "idle"
    /\ doc = <<>>
    /\ save_path = NoPath

Init == ParserIdle /\ InitConvert(Procs) /\ fs \in InitialFiles

\* one invocation alone
InitSolo == ParserIdle /\ InitConvert({"p1"}) /\ fs \in InitialFiles

Step(p) ==
    \/ Convert_Enter(p)
    \/ Preprocess_Read(p)
    \/ Preprocess_Write(p)
    \/ Extract_Open(p)
    \/ Extract_Post(p)
    \/ Convert_Parse(p)
    \/ Convert_Generate(p)
    \/ Cleanup_Exists(p)
    \/ Cleanup_Remove(p)
    \/ St_SaveUpload(p)
    \/ St_AllocOutput(p)
    \/ St_CleanupInput(p)
    \/ St_ShowResult(p)

Next == \E p \in Procs : Step(p)

Spec == Init /\ [][Next]_vars

SpecSolo == InitSolo /\ [][Next]_vars

----------------------------------------------------------------------------
(* Parser specification: the input is drawn, then a function is applied *)

InitParse ==
    /\ formatted_text \in Texts
    /\ blocks = <<>>
    /\ runs = <<>>
    /\ step = "input"
    /\ doc = <<>>
    /\ save_path = NoPath
    /\ InitConvert({})
    /\ fs = [x \in Paths |-> Absent]

\* parse_formatting(formatted_text)
ParseFormatting ==
    /\ step = "input"
    /\ blocks' = parse_formatting(formatted_text)
    /\ step' = "parsed"
    /\ UNCHANGED <<formatted_text, runs, doc, save_path, cvars>>

\* _parse_inline_formatting(line) on a one-line text
ParseInline ==
    /\ step = "input"
    /\ ~HasNewline(formatted_text)
    /\ runs' = parse_inline_formatting(formatted_text)
    /\ step' = "tokenized"
    /\ UNCHANGED <<formatted_text, blocks, doc, save_path, cvars>>

NextParse == ParseFormatting \/ ParseInline

SpecParse == InitParse /\ [][NextParse]_vars

----------------------------------------------------------------------------
(* Specification of the assembler: generate_word_document on a block sequence *)

InitAssemble ==
    /\ formatted_text = <<>>
    /\ blocks \in BlockSeqs
    /\ runs = <<>>
    /\ step = "input"
    /\ doc = <<>>
    /\ save_path = OutputPath("p1")
    /\ InitConvert({})
    /\ fs = [x \in Paths |-> Absent]

\* generate_word_document(blocks, save_path) runs to its return True
Generate_Saved ==
    /\ step = "input"
    /\ save_path # NoPath
    /\ doc' = generate_word_document(blocks, save_path)
    /\ fs' = [fs EXCEPT ![save_path] = File("docx", "none")]
    /\ step' = "generated"
    /\ UNCHANGED <<formatted_text, blocks, runs, save_path, caller, pc, image_path,
                   output_path, image, preprocessed_path, result, conv_blocks,
                   success, gen_error, ret, log>>

\* an operation on the Document raises after k operations went through: the
\* except clause logs the exception and returns False.  A failing save may
\* leave a partial file.
Generate_Failed ==
    /\ step = "input"
    /\ save_path # NoPath
    /\ LET ops == generate_word_document(blocks, save_path)
       IN \E k \in 0..(Len(ops) - 1) :
             /\ doc' = SubSeq(ops, 1, k)
             /\ \/ fs' = fs
                \/ /\ k = Len(ops) - 1
                   /\ fs' = [fs EXCEPT ![save_path] = File("partial", "none")]
    /\ step' = "generate_failed"
    /\ UNCHANGED <<formatted_text, blocks, runs, save_path, caller, pc, image_path,
                   output_path, image, preprocessed_path, result, conv_blocks,
                   success, gen_error, ret, log>>

NextAssemble == Generate_Saved \/ Generate_Failed

SpecAssemble == InitAssemble /\ [][NextAssemble]_vars

----------------------------------------------------------------------------
(* Vocabulary of the parser properties, defined on the input text itself *)

\* positions of the line separators of s
NLPos(s) == { i \in 1..Len(s) : s[i] = NL }

\* position of the k-th line separator of s
KthNL(s, k) == CHOOSE p \in NLPos(s) : Cardinality({ q \in NLPos(s) : q < p }) = k - 1

\* the k-th line of s: the characters between separator k-1 and separator k
LineAt(s, k) ==
    LET first == IF k = 1 THEN 1 ELSE KthNL(s, k - 1) + 1
        last == IF k = Cardinality(NLPos(s)) + 1 THEN Len(s) ELSE KthNL(s, k) - 1
    IN SubSeq(s, first, last)

IsBlank(line) == \A j \in 1..Len(line) : IsSpace(line[j])

\* a is obtained from b by deleting characters
RECURSIVE IsSubseq(_, _)
IsSubseq(a, b) ==
    IF a = <<>> THEN TRUE
    ELSE IF b = <<>> THEN FALSE
    ELSE IF Head(a) = Head(b) THEN IsSubseq(Tail(a), Tail(b))
    ELSE IsSubseq(a, Tail(b))

\* concatenation of the texts of a run sequence
RECURSIVE ConcatText(_)
ConcatText(rs) ==
    IF rs = <<>> THEN <<>> ELSE Head(rs).text \o ConcatText(Tail(rs))

\* s without the characters at the positions in D
Without(s, D) ==
    LET idx == SelectSeq([i \in 1..Len(s) |-> i], LAMBDA i : i \notin D)
    IN [k \in 1..Len(idx) |-> s[idx[k]]]

\* width of the delimiters of a match: 2 for a match of the bold alternative
\* (at least four characters, opening with two asterisks), 1 otherwise
DelimWidth(s, m) ==
    IF m[2] - m[1] + 1 >= 4 /\ s[m[1] + 1] = STAR THEN 2 ELSE 1

\* positions of the delimiters of the matched pairs of s
DelimPositions(s) ==
    LET ms == FindIter(s, 1)
    IN UNION { (ms[k][1]..(ms[k][1] + DelimWidth(s, ms[k]) - 1))
                 \cup ((ms[k][2] - DelimWidth(s, ms[k]) + 1)..ms[k][2]) : k \in 1..Len(ms) }

IsPlain(r) == ~r.bold /\ ~r.italic

\* the maximal groups of consecutive asterisks of s from position i on:
\* a sequence of <<first, length>>
RECURSIVE GroupLen(_, _)
GroupLen(s, i) == IF i <= Len(s) /\ s[i] = STAR THEN 1 + GroupLen(s, i + 1) ELSE 0

RECURSIVE StarGroups(_, _)
StarGroups(s, i) ==
    IF i > Len(s) THEN <<>>
    ELSE IF s[i] = STAR
         THEN <<(<<i, GroupLen(s, i)>>)>> \o StarGroups(s, i + GroupLen(s, i))
         ELSE StarGroups(s, i + 1)

StarCount(s) == Cardinality({ i \in 1..Len(s) : s[i] = STAR })

----------------------------------------------------------------------------
(* Parser properties *)

\* C1: parse_formatting returns exactly one block per "\n"-separated line, in
\* line order: block i is a paragraph_break iff line i is blank after trimming,
\* and otherwise one heading or paragraph block built from the characters of
\* line i; no line is merged, dropped or reordered.
C1_OneBlockPerLine ==
    step = "parsed" =>
        /\ Len(blocks) = Cardinality(NLPos(formatted_text)) + 1
        /\ \A i \in 1..Len(blocks) :
              LET line == LineAt(formatted_text, i)
              IN /\ blocks[i].type \in {"paragraph_break", "heading", "paragraph"}
                 /\ (blocks[i].type = "paragraph_break") <=> IsBlank(line)
                 /\ blocks[i].type # "paragraph_break" =>
                       IsSubseq(ConcatText(blocks[i].runs), line)

\* C1 witness: a parsed text of at least three lines with a break, a heading
\* and a paragraph among its blocks
C1_Witness ==
    /\ step = "parsed"
    /\ Len(blocks) >= 3
    /\ \E i, j, k \in 1..Len(blocks) :
          /\ blocks[i].type = "paragraph_break"
          /\ blocks[j].type = "heading"
          /\ blocks[k].type = "paragraph"

C3_UnmatchedMarkerIsLiteral ==
    /\ step = "tokenized" =>
          LET g == StarGroups(formatted_text, 1)
          IN /\ (Len(g) = 1 /\ g[1][2] <= 2) =>
                   /\ \A i \in 1..Len(runs) : IsPlain(runs[i])
                   /\ ConcatText(runs) = formatted_text
             /\ (/\ Len(g) = 3
                 /\ g[1][2] \in {1, 2} /\ g[2][2] = 3 - g[1][2] /\ g[3][2] = g[2][2]
                 /\ g[2][1] + g[2][2] < g[3][1]) =>
                   LET X == SubSeq(formatted_text, g[2][1] + g[2][2], g[3][1] - 1)
                   IN /\ \E i \in 1..Len(runs) :
                            /\ runs[i].text = X
                            /\ runs[i].bold = (g[2][2] = 2)
                            /\ runs[i].italic = (g[2][2] = 1)
                      /\ \A i \in 1..Len(runs) : ~IsPlain(runs[i]) => runs[i].text = X
                      /\ StarCount(ConcatText(runs)) = g[1][2]
    /\ step = "parsed" =>
          \A i \in 1..Len(blocks) : blocks[i] = ClassifyLine(LineAt(formatted_text, i))

----------------------------------------------------------------------------
(* Line-level properties of the parser *)

\* s without its first n characters
Drop(s, n) == SubSeq(s, n + 1, Len(s))

\* the line with only its leading alignment marker, and the whitespace
\* around it, removed
WithoutLeadingAlignment(line) ==
    IF StartsWith(line, CENTER) THEN Strip(Drop(line, Len(CENTER)))
    ELSE IF StartsWith(line, RIGHT) THEN Strip(Drop(line, Len(RIGHT)))
    ELSE line

\* number of "#" characters s begins with
RECURSIVE LeadingHashes(_)
LeadingHashes(s) ==
    IF s # <<>> /\ Head(s) = "#" THEN 1 + LeadingHashes(Tail(s)) ELSE 0

Min(a, b) == IF a <= b THEN a ELSE b

\* s with only its leading heading marker (at most three "#"), and the
\* whitespace around it, removed
WithoutLeadingHeading(s) ==
    IF LeadingHashes(s) > 0 THEN Strip(Drop(s, Min(3, LeadingHashes(s)))) ELSE s

\* C11: for every non-blank line, the text handed to the tokenizer is the line
\* with only its leading alignment marker and its leading heading marker (and
\* the whitespace around them) removed; later occurrences of "[CENTER]",
\* "[RIGHT]" or "#" inside the content are left unchanged and appear in the
\* run text.
C11_OnlyLeadingMarkersStripped ==
    step = "parsed" =>
        \A i \in 1..Len(blocks) :
            LET line == LineAt(formatted_text, i)
            IN ~IsBlank(line) =>
                  blocks[i].runs = parse_inline_formatting(
                      WithoutLeadingHeading(WithoutLeadingAlignment(line)))

\* C12: for every non-blank line the block's alignment is center when the line
\* starts with [CENTER], right when it starts with [RIGHT], left otherwise; and
\* with the text the alignment stage leaves, the block is a heading of level 3
\* when that text starts with ###, level 2 when it starts with ## but not ###,
\* level 1 when it starts with # but not ##, and a paragraph of level 0 when it
\* does not start with #.
C12_AlignmentAndHeadingLevel ==
    step = "parsed" =>
        \A i \in 1..Len(blocks) :
            LET line == LineAt(formatted_text, i)
                left == DetectAlignment(line)[2]
                b    == blocks[i]
            IN ~IsBlank(line) =>
                  /\ StartsWith(line, CENTER) => b.alignment = "center"
                  /\ StartsWith(line, RIGHT) => b.alignment = "right"
                  /\ ~StartsWith(line, CENTER) /\ ~StartsWith(line, RIGHT)
                        => b.alignment = "left"
                  /\ LeadingHashes(left) >= 3
                        => b.type = "heading" /\ b.heading_level = 3
                  /\ LeadingHashes(left) = 2
                        => b.type = "heading" /\ b.heading_level = 2
                  /\ LeadingHashes(left) = 1
                        => b.type = "heading" /\ b.heading_level = 1
                  /\ LeadingHashes(left) = 0
                        => b.type = "paragraph" /\ b.heading_level = 0

\* a centred line whose remaining text starts with ## but not ### was parsed
C12_Witness ==
    /\ step = "parsed"
    /\ \E i \in 1..Len(blocks) :
          LET line == LineAt(formatted_text, i)
          IN /\ StartsWith(line, CENTER)
             /\ LeadingHashes(DetectAlignment(line)[2]) = 2
             /\ blocks[i].type = "heading"
             /\ blocks[i].heading_level = 2
             /\ blocks[i].alignment = "center"

\* C13: for a line without any asterisk the tokenizer returns exactly one run,
\* whose text is the whole input and whose bold and italic are both false; and
\* for a non-empty line, with or without markers, the returned sequence of runs
\* is never empty.
C13_PlainLineIsOneRun ==
    step = "tokenized" =>
        /\ StarCount(formatted_text) = 0
              => /\ Len(runs) = 1
                 /\ runs[1].text = formatted_text
                 /\ runs[1].bold = FALSE
                 /\ runs[1].italic = FALSE
        /\ formatted_text # <<>> => Len(runs) >= 1

\* a non-empty line without asterisks was tokenized into its single plain run
C13_Witness ==
    /\ step = "tokenized"
    /\ formatted_text # <<>>
    /\ StarCount(formatted_text) = 0
    /\ runs = <<[text |-> formatted_text, bold |-> FALSE, italic |-> FALSE]>>

\* the styled runs among rs, in order
Styled(rs) == SelectSeq(rs, LAMBDA r : ~IsPlain(r))

\* the text between the delimiters of match m of s
Inner(s, m) == SubSeq(s, m[1] + DelimWidth(s, m), m[2] - DelimWidth(s, m))

\* C16: every run the tokenizer returns has at most one of bold and italic set;
\* a span matched as **X** is a single run with bold=true, italic=false whose
\* text is X with its inner asterisks kept as literal characters, and a span
\* matched as *X* is a single run with bold=false, italic=true (text X).
C16_OneStylePerRun ==
    step = "tokenized" =>
        LET ms == FindIter(formatted_text, 1)
            styled == Styled(runs)
        IN /\ \A k \in 1..Len(runs) : ~(runs[k].bold /\ runs[k].italic)
           /\ Len(styled) = Len(ms)
           /\ \A k \in 1..Len(ms) :
                 IF DelimWidth(formatted_text, ms[k]) = 2
                 THEN styled[k] = [text |-> Inner(formatted_text, ms[k]),
                                   bold |-> TRUE, italic |-> FALSE]
                 ELSE styled[k] = [text |-> Inner(formatted_text, ms[k]),
                                   bold |-> FALSE, italic |-> TRUE]

----------------------------------------------------------------------------
(* Pipeline properties *)

\* recognition has answered for p
Recognized(p) == result[p] # Unset

\* convert has returned to its caller
HasReturned(p) == pc[p] \in {"returned", "st_show", "st_done"}

\* this invocation of convert has written the document at its output path
OutputWritten(p) ==
    /\ output_path[p] # NoPath
    /\ fs[output_path[p]].by = p
    /\ fs[output_path[p]].kind \in {"docx", "partial"}

\* the temporary image p wrote is on disk
TempOnDisk(p) ==
    /\ preprocessed_path[p] # NoPath
    /\ fs[preprocessed_path[p]] = File("preprocessed", p)

IsPrefix(a, b) == Len(a) <= Len(b) /\ SubSeq(b, 1, Len(a)) = a

Logged(p, stage) == \E i \in 1..Len(log[p]) : log[p][i] = stage

\* C4: whenever the OCR collaborator returns a non-empty error e, convert
\* returns success=false with message "OCR failed: " followed by e, the result
\* has no output path, and the invocation writes no file at the output path.
C4_OcrErrorResult ==
    \A p \in Procs :
        (Recognized(p) /\ result[p].error \notin {None, ""}) =>
            /\ HasReturned(p)
            /\ DOMAIN ret[p] = {"success", "message"}
            /\ ret[p].success = FALSE
            /\ ret[p].message = "OCR failed: " \o result[p].error
            /\ ~OutputWritten(p)

\* C4 witness: an invocation returned after the provider answered
\* "quota exceeded"
C4_Witness ==
    \E p \in Procs :
        /\ Recognized(p) /\ result[p].error = "quota exceeded"
        /\ pc[p] = "returned"

\* C5: on every exit path of convert reached after stage 1 created the
\* temporary image, that file no longer exists when convert returns.
C5_TempRemovedAtReturn ==
    \A p \in Procs : pc[p] = "returned" => ~TempOnDisk(p)

\* C6: whenever the recognition step fails (non-200 status, or an exception in
\* the request or the decoding), for every error text including the empty one,
\* convert returns success=false and neither parse_formatting nor
\* generate_word_document is invoked.
C6_RecognitionFailureAborts ==
    \A p \in Procs :
        (Recognized(p) /\ result[p].error # None) =>
            /\ HasReturned(p)
            /\ ret[p].success = FALSE
            /\ ~Logged(p, "classify")
            /\ ~Logged(p, "assemble")

\* C7: every invocation of convert, whatever fault occurs in preprocessing,
\* recognition, parsing, document generation or cleanup, ends by returning
\* exactly one result with a boolean success and a message; no exception
\* reaches the caller.
C7_AlwaysOneResult ==
    /\ [](\A p \in Procs :
            /\ pc[p] # "raised"
            /\ HasReturned(p) <=> ret[p] # Unset
            /\ ret[p] # Unset =>
                  /\ {"success", "message"} \subseteq DOMAIN ret[p]
                  /\ ret[p].success \in BOOLEAN)
    /\ [][\A p \in Procs : ret[p] # Unset => ret'[p] = ret[p]]_vars
    /\ \A p \in Procs : (caller[p] # "none") => <>HasReturned(p)

\* C7 witness: an invocation returned a failure from the except clause after
\* its cleanup raised
C7_Witness ==
    \E p \in Procs :
        /\ pc[p] = "returned"
        /\ Logged(p, "assemble")
        /\ ret[p] = Failure("[Errno 13] Permission denied: " \o PathStr(preprocessed_path[p]))

\* C8: the stages are invoked in the order preprocess, OCR, classify,
\* assemble, each at most once, and a stage is invoked only if every earlier
\* stage succeeded; when the image cannot be decoded no OCR call is made.
C8_StagesInOrder ==
    \A p \in Procs :
        /\ IsPrefix(log[p], Stages)
        /\ Logged(p, "ocr") => image[p] = "array"
        /\ Logged(p, "classify") => (Recognized(p) /\ result[p].error = None)
        /\ Logged(p, "assemble") => (Recognized(p) /\ result[p].error = None
                                        /\ result[p].text # NullText)

\* p is between the write of its temporary image and its own cleanup
HoldsTemp(p) ==
    /\ pc[p] \in {"open", "post", "parse", "generate", "exists", "remove"}
    /\ TempOnDisk(p)

\* C9: for two concurrent invocations, under every interleaving, the temporary
\* image written by one is never overwritten, read or deleted by the other.
C9_TempNotTouchedByOther ==
    [][\A p, q \in Procs :
          (p # q /\ HoldsTemp(p) /\ pc'[q] # pc[q]) =>
              /\ fs'[preprocessed_path[p]] = fs[preprocessed_path[p]]
              /\ ~(pc[q] = "open" /\ preprocessed_path[q] = preprocessed_path[p])
              /\ ~(pc[q] = "imread" /\ image_path[q] = preprocessed_path[p])]_vars

\* C10: whenever a conversion ends with success=false, no output document file
\* created for that conversion remains on disk, for convert itself and for
\* the Streamlit caller that allocates the output file before the call.
C10_NoOutputLeftOnFailure ==
    \A p \in Procs :
        (Finished(p) /\ ret[p].success = FALSE) =>
            ~(Exists(output_path[p]) /\ fs[output_path[p]].by = p)

\* generate_word_document of invocation p caught an exception
AssemblyFaulted(p) == gen_error[p] # None

\* the texts of the exceptions os.remove(preprocessed_path) may raise
CleanupFaults(p) ==
    { "[Errno 13] Permission denied: " \o PathStr(preprocessed_path[p]),
      "[Errno 2] No such file or directory: " \o PathStr(preprocessed_path[p]) }

\* C15, as stated: whenever the assembly stage faults (an operation on the
\* document is rejected or the save to the output path fails), convert returns
\* success=false with a message that is the description of that fault.
C15_AssemblyFaultIsTheMessage ==
    \A p \in Procs :
        (AssemblyFaulted(p) /\ HasReturned(p)) =>
            /\ ret[p].success = FALSE
            /\ ret[p].message = gen_error[p]

\* C15, amended: whenever the assembly stage faults, convert returns
\* success=false and no output path, with the fixed message "Failed to generate
\* Word document" (the description of the fault is only logged), or with the
\* text of the exception the following removal of the preprocessed file raised.
C15_AssemblyFaultFixedMessage ==
    \A p \in Procs :
        (AssemblyFaulted(p) /\ HasReturned(p)) =>
            /\ DOMAIN ret[p] = {"success", "message"}
            /\ ret[p].success = FALSE
            /\ \/ ret[p].message = "Failed to generate Word document"
               \/ ret[p].message \in CleanupFaults(p)

\* an invocation whose assembly faulted has returned the fixed message
C15_Witness ==
    \E p \in Procs :
        /\ AssemblyFaulted(p)
        /\ HasReturned(p)
        /\ ret[p] = Failure("Failed to generate Word document")

----------------------------------------------------------------------------
(* Assembler properties *)

\* point size of the runs of a heading of a level
SizeForHeading(level) ==
    CASE level = 1 -> 24
      [] level = 2 -> 18
      [] level = 3 -> 14
      [] OTHER -> 14

SinkAlignment(a) ==
    CASE a = "center" -> "CENTER"
      [] a = "right" -> "RIGHT"
      [] a = "left" -> "LEFT"

\* one run per input run, in order, with its text, bold, italic and a size
RECURSIVE ExpectedRuns(_, _)
ExpectedRuns(rs, size) ==
    IF rs = <<>> THEN <<>>
    ELSE << AddRun(Head(rs).text), SetBold(Head(rs).bold), SetItalic(Head(rs).italic),
            SetFontSize(size) >> \o ExpectedRuns(Tail(rs), size)

ExpectedBlock(b) ==
    CASE b.type = "paragraph_break" -> <<AddParagraph>>
      [] b.type = "heading" ->
            <<AddHeading(b.heading_level), SetAlignment(SinkAlignment(b.alignment))>>
               \o ExpectedRuns(b.runs, SizeForHeading(b.heading_level))
      [] b.type = "paragraph" ->
            <<AddParagraph, SetAlignment(SinkAlignment(b.alignment))>>
               \o ExpectedRuns(b.runs, 11)

RECURSIVE ExpectedBlocks(_)
ExpectedBlocks(bs) ==
    IF bs = <<>> THEN <<>> ELSE ExpectedBlock(Head(bs)) \o ExpectedBlocks(Tail(bs))

\* C14: for every block sequence the operations generate_word_document issues
\* on the document are the concatenation, in block order with no block skipped
\* or reordered, of: for a paragraph_break one add-paragraph with no alignment
\* and no run; for a heading add-heading(level), the alignment, then one run
\* per input run in order with its text, bold, italic and size 24/18/14 for
\* level 1/2/3 (14 for any other level); for a paragraph add-paragraph, the
\* alignment, then one run per input run at size 11; followed by a single save
\* to the output path.  A call in which an operation raises has issued a
\* proper prefix of that sequence.
C14_SinkOperationsFollowBlocks ==
    LET expected == ExpectedBlocks(blocks) \o <<Save(save_path)>>
    IN /\ step = "generated" => doc = expected
       /\ step = "generate_failed" => IsPrefix(doc, expected) /\ doc # expected

\* a break, then a level-2 heading with a bold and an italic run, were
\* assembled and saved
C14_Witness ==
    /\ step = "generated"
    /\ Len(blocks) = 2
    /\ blocks[1].type = "paragraph_break"
    /\ blocks[2].type = "heading"
    /\ blocks[2].heading_level = 2
    /\ Len(blocks[2].runs) = 2
    /\ Len(doc) = 12
    /\ doc[1] = AddParagraph
    /\ doc[Len(doc)] = Save(save_path)

\* fairness: every invocation that can take a step eventually takes one (the
\* provider answers or the request raises)
FairSpec == Spec /\ \A p \in Procs : WF_vars(Step(p))

====
